---------------------------- MODULE Spec2Model ----------------------------
(***************************************************************************)
(* Model of nwg-look's colour synchronisation (src/colorextractor.go,      *)
(* src/colorui.go): the stylesheet parser, the reference resolver, the     *)
(* colour normaliser, the palette builder, the template fill engine and    *)
(* the ColorSyncManager that sequences them from goroutines started by the *)
(* user interface.                                                         *)
(*                                                                         *)
(* Strings are TLA+ strings; a character is a string of length one.  Go    *)
(* maps are functions whose DOMAIN is the key set.  A Go `range` over a    *)
(* map visits the keys in an unspecified order: every such loop is a set   *)
(* of keys still to visit, from which each step picks any one.             *)
(***************************************************************************)
EXTENDS Integers, Sequences, FiniteSets, TLC

----------------------------------------------------------------------------
(* Strings: package strings and the regexp character classes.              *)

\* the character at index i (1-based), "" outside the string
Char(s, i) == IF 1 <= i /\ i <= Len(s) THEN SubSeq(s, i, i) ELSE ""

Lower == {"a","b","c","d","e","f","g","h","i","j","k","l","m",
          "n","o","p","q","r","s","t","u","v","w","x","y","z"}

Upper == {"A","B","C","D","E","F","G","H","I","J","K","L","M",
          "N","O","P","Q","R","S","T","U","V","W","X","Y","Z"}

Digit == {"0","1","2","3","4","5","6","7","8","9"}

\* \w of Go's regexp (RE2): [0-9A-Za-z_]
WordChar == Lower \cup Upper \cup Digit \cup {"_"}

\* \s of Go's regexp (RE2): [\t\n\f\r ]
SpaceChar == {" ", "\t", "\n", "\f", "\r"}

\* the value class [#\w(),.\s] of both declaration patterns
ValueChar == WordChar \cup SpaceChar \cup {"#", "(", ")", ",", "."}

\* strings.HasPrefix(s[i-1:], p)
HasPrefixAt(s, i, p) ==
    /\ i >= 1
    /\ i + Len(p) - 1 <= Len(s)
    /\ SubSeq(s, i, i + Len(p) - 1) = p

HasPrefix(s, p) == HasPrefixAt(s, 1, p)

\* 1-based index of the first occurrence of p in s at or after `from`, 0 if none
IndexFrom(s, p, from) ==
    LET I == {i \in from..(Len(s) - Len(p) + 1) : HasPrefixAt(s, i, p)}
    IN  IF I = {} THEN 0 ELSE CHOOSE i \in I : \A j \in I : i <= j

Contains(s, p) == IndexFrom(s, p, 1) # 0

\* the index just after the longest run of characters of class C starting at i
RunEnd(s, i, C) ==
    CHOOSE j \in i..(Len(s) + 1) :
        /\ \A k \in i..(j - 1) : Char(s, k) \in C
        /\ j = Len(s) + 1 \/ Char(s, j) \notin C

\* the index of the last character outside class C at or before i (0 if none)
RunStart(s, i, C) ==
    CHOOSE j \in 0..i :
        /\ \A k \in (j + 1)..i : Char(s, k) \in C
        /\ j = 0 \/ Char(s, j) \notin C

\* strings.TrimSpace, on the characters a captured value can hold
TrimSpace(s) ==
    LET b == RunEnd(s, 1, SpaceChar)
        e == RunStart(s, Len(s), SpaceChar)
    IN  IF b > e THEN "" ELSE SubSeq(s, b, e)

\* strings.Replace(s, old, new, -1) for a non-empty old: every non-overlapping
\* occurrence, left to right.  (A value that is used several times is bound
\* as the element of a one-element set, which TLC evaluates once.)
RECURSIVE ReplaceFrom(_, _, _, _)
ReplaceFrom(s, old, new, i) ==
    CHOOSE r \in {IF k = 0 THEN SubSeq(s, i, Len(s))
                  ELSE SubSeq(s, i, k - 1) \o new \o ReplaceFrom(s, old, new, k + Len(old))
                  : k \in {IndexFrom(s, old, i)}} : TRUE

ReplaceAll(s, old, new) ==
    CHOOSE r \in {ReplaceFrom(vs, vold, vnew, 1) :
                    vs \in {s}, vold \in {old}, vnew \in {new}} : TRUE

\* strings.ToLower on ASCII
LowerOf(c) ==
    IF c \in Upper
    THEN CHOOSE l \in Lower :
           \E i \in 1..26 : /\ Char("ABCDEFGHIJKLMNOPQRSTUVWXYZ", i) = c
                            /\ Char("abcdefghijklmnopqrstuvwxyz", i) = l
    ELSE c

RECURSIVE ToLower(_)
ToLower(s) == IF s = "" THEN "" ELSE LowerOf(Char(s, 1)) \o ToLower(Tail(s))

----------------------------------------------------------------------------
(* Go maps as functions.                                                   *)

EmptyTable == [k \in {} |-> ""]

\* m[k] = v
Put(m, k, v) == [x \in (DOMAIN m) \cup {k} |-> IF x = k THEN v ELSE m[x]]

\* the smallest element of a non-empty set of integers
Least(I) == CHOOSE i \in I : \A j \in I : i <= j

----------------------------------------------------------------------------
(* 4.1 Stylesheet colour parser: the two FindAllStringSubmatch scans of    *)
(* ExtractColors.                                                          *)

NoMatch == [ok |-> FALSE, name |-> "", value |-> "", end |-> 0]

\* The tail `\s+([#\w(),.\s]+);` resp. `\s*([#\w(),.\s]+);` of a declaration
\* pattern, tried at index j with at least minSpace characters for the \s part.
\* ';' is not a value character, so the value group ends where the run of
\* value characters ends; the greedy \s part takes the leading whitespace and
\* gives one character back when the whole run is whitespace.
ValueTail(s, j, minSpace, name) ==
    LET e == RunEnd(s, j, ValueChar)
        w == RunEnd(s, j, SpaceChar)
        v == IF w < e THEN w ELSE e - 1
    IN  IF /\ e <= Len(s)
           /\ Char(s, e) = ";"
           /\ v >= j + minSpace
           /\ w >= j + minSpace
        THEN [ok |-> TRUE, name |-> name, value |-> SubSeq(s, v, e - 1), end |-> e + 1]
        ELSE NoMatch

\* `@define-color\s+(\w+)\s+([#\w(),.\s]+);` matched at index i
DefineMatchAt(s, i) ==
    LET kw == "@define-color"
        a  == i + Len(kw)
        b  == RunEnd(s, a, SpaceChar)
        c  == RunEnd(s, b, WordChar)
    IN  IF HasPrefixAt(s, i, kw) /\ b > a /\ c > b
        THEN ValueTail(s, c, 1, SubSeq(s, b, c - 1))
        ELSE NoMatch

\* `\w+-\w+(?:-\w+)*` matches the whole of n
IsVarName(n) ==
    /\ n # ""
    /\ Char(n, 1) # "-"
    /\ Char(n, Len(n)) # "-"
    /\ Contains(n, "-")
    /\ ~Contains(n, "--")

\* `--(\w+-\w+(?:-\w+)*)\s*:\s*([#\w(),.\s]+);` matched at index i.  The name
\* is followed by whitespace or ':', so it is the whole run of [\w-].
VarMatchAt(s, i) ==
    LET a == i + 2
        b == RunEnd(s, a, WordChar \cup {"-"})
        c == RunEnd(s, b, SpaceChar)
    IN  IF /\ HasPrefixAt(s, i, "--")
           /\ IsVarName(SubSeq(s, a, b - 1))
           /\ c <= Len(s)
           /\ Char(s, c) = ":"
        THEN ValueTail(s, c + 1, 0, SubSeq(s, a, b - 1))
        ELSE NoMatch

\* FindAllStringSubmatch followed by the loop that stores each match:
\* leftmost, non-overlapping matches in document order, colors[name] =
\* strings.TrimSpace(value).  A match can only start where its literal prefix
\* occurs, so the scan goes from one occurrence to the next.
RECURSIVE StoreDefines(_, _, _)
StoreDefines(s, i, colors) ==
    LET k == IndexFrom(s, "@define-color", i)
        m == DefineMatchAt(s, k)
    IN  IF k = 0 THEN colors
        ELSE IF m.ok
             THEN StoreDefines(s, m.end, Put(colors, m.name, TrimSpace(m.value)))
             ELSE StoreDefines(s, k + 1, colors)

RECURSIVE StoreVars(_, _, _)
StoreVars(s, i, colors) ==
    LET k == IndexFrom(s, "--", i)
        m == VarMatchAt(s, k)
    IN  IF k = 0 THEN colors
        ELSE IF m.ok
             THEN StoreVars(s, m.end, Put(colors, m.name, TrimSpace(m.value)))
             ELSE StoreVars(s, k + 1, colors)

\* the table ExtractColors hands to resolveColorReferences
ParseColors(content) == StoreVars(content, 1, StoreDefines(content, 1, EmptyTable))

----------------------------------------------------------------------------
(* 4.2 Reference resolver: the body of the inner loop of                   *)
(* resolveColorReferences.                                                 *)

\* refPattern.FindStringSubmatch(value)[1] for `@(\w+)`: the longest run of
\* word characters after the leftmost '@' that has one; "" when none matches
RefName(value) ==
    LET I == {i \in 1..(Len(value) - 1) :
                Char(value, i) = "@" /\ Char(value, i + 1) \in WordChar}
        i == Least(I)
    IN  IF I = {} THEN "" ELSE SubSeq(value, i + 1, RunEnd(value, i + 1, WordChar) - 1)

\* strings.Replace(value, "@"+refName, refValue, -1)
Substitute(value, refName, refValue) == ReplaceAll(value, "@" \o refName, refValue)

\* the value colors[name] holds after the loop body has run for `name`
VisitEntry(colors, name) ==
    LET value   == colors[name]
        refName == RefName(value)
    IN  IF Contains(value, "@") /\ refName # "" /\ refName \in DOMAIN colors
        THEN Substitute(value, refName, colors[refName])
        ELSE value

----------------------------------------------------------------------------
(* 4.3 Colour normaliser.                                                  *)

\* strconv.Atoi on a run of decimal digits (the inputs stay far below the
\* integer range)
RECURSIVE Atoi(_)
Atoi(d) ==
    IF d = "" THEN 0
    ELSE 10 * Atoi(SubSeq(d, 1, Len(d) - 1))
         + (CHOOSE n \in 0..9 : Char("0123456789", n + 1) = Char(d, Len(d)))

\* the digits of %x
RECURSIVE Hex(_)
Hex(n) ==
    IF n < 16 THEN Char("0123456789abcdef", n + 1)
    ELSE Hex(n \div 16) \o Char("0123456789abcdef", (n % 16) + 1)

\* fmt.Sprintf("%02x", n)
Hex02(n) == IF n < 16 THEN "0" \o Hex(n) ELSE Hex(n)

NoRgb == [ok |-> FALSE, r |-> "", g |-> "", b |-> ""]

\* `rgba?\((\d+),\s*(\d+),\s*(\d+)` matched at index i
RgbMatchAt(s, i) ==
    LET a  == IF Char(s, i + 3) = "a" THEN i + 4 ELSE i + 3
        r1 == a + 1
        r2 == RunEnd(s, r1, Digit)
        g1 == RunEnd(s, r2 + 1, SpaceChar)
        g2 == RunEnd(s, g1, Digit)
        b1 == RunEnd(s, g2 + 1, SpaceChar)
        b2 == RunEnd(s, b1, Digit)
    IN  IF /\ HasPrefixAt(s, i, "rgb")
           /\ Char(s, a) = "("
           /\ r2 > r1 /\ Char(s, r2) = ","
           /\ g2 > g1 /\ Char(s, g2) = ","
           /\ b2 > b1
        THEN [ok |-> TRUE, r |-> SubSeq(s, r1, r2 - 1), g |-> SubSeq(s, g1, g2 - 1),
              b |-> SubSeq(s, b1, b2 - 1)]
        ELSE NoRgb

\* rgbPattern.FindStringSubmatch(color): the leftmost match
RgbMatch(s) ==
    LET I == {i \in 1..Len(s) : RgbMatchAt(s, i).ok}
    IN  IF I = {} THEN NoRgb ELSE RgbMatchAt(s, Least(I))

normalizeColor(color) ==
    LET c == TrimSpace(color)
        m == RgbMatch(c)
    IN  IF HasPrefix(c, "#") THEN c
        ELSE IF Contains(ToLower(c), "rgb") /\ m.ok
             THEN "#" \o Hex02(Atoi(m.r)) \o Hex02(Atoi(m.g)) \o Hex02(Atoi(m.b))
             ELSE c

----------------------------------------------------------------------------
(* 4.4 Palette builder.                                                    *)

ColorKeys == {"color0", "color1", "color2", "color3", "color4", "color5",
              "color6", "color7", "color8", "color9", "color10", "color11",
              "color12", "color13", "color14", "color15"}

\* the literal generateStandardPalette starts from
DefaultPalette ==
    [Background |-> "#1e1e1e",
     Foreground |-> "#d4d4d4",
     Cursor     |-> "#d4d4d4",
     Colors     |-> [k \in ColorKeys |->
        CASE k = "color0"  -> "#000000" [] k = "color1"  -> "#cd3131"
          [] k = "color2"  -> "#0dbc79" [] k = "color3"  -> "#e5e510"
          [] k = "color4"  -> "#2472c8" [] k = "color5"  -> "#bc3fbc"
          [] k = "color6"  -> "#11a8cd" [] k = "color7"  -> "#e5e5e5"
          [] k = "color8"  -> "#666666" [] k = "color9"  -> "#f14c4c"
          [] k = "color10" -> "#23d18b" [] k = "color11" -> "#f5f543"
          [] k = "color12" -> "#3b8eea" [] k = "color13" -> "#d670d6"
          [] k = "color14" -> "#29b8db" [] k = "color15" -> "#e5e5e5"]]

\* colorMapping of generateStandardPalette: GTK name -> palette slot
colorMapping ==
    [gtkName \in {"theme_bg_color", "theme_fg_color", "theme_base_color",
                  "theme_text_color", "theme_selected_bg_color",
                  "warning_color", "error_color", "success_color"} |->
        CASE gtkName = "theme_bg_color"          -> "background"
          [] gtkName = "theme_fg_color"          -> "foreground"
          [] gtkName = "theme_base_color"        -> "background"
          [] gtkName = "theme_text_color"        -> "foreground"
          [] gtkName = "theme_selected_bg_color" -> "color4"
          [] gtkName = "warning_color"           -> "color3"
          [] gtkName = "error_color"             -> "color1"
          [] gtkName = "success_color"           -> "color2"]

\* the assignment to the slot stdName
SetSlot(palette, stdName, normalized) ==
    CASE stdName = "background" -> [palette EXCEPT !.Background = normalized]
      [] stdName = "foreground" -> [palette EXCEPT !.Foreground = normalized]
      [] stdName = "cursor"     -> [palette EXCEPT !.Cursor = normalized]
      [] OTHER -> [palette EXCEPT !.Colors = Put(palette.Colors, stdName, normalized)]

\* the body of the loop over colorMapping for the entry gtkName
MapEntry(palette, colors, gtkName) ==
    IF gtkName \in DOMAIN colors
    THEN SetSlot(palette, colorMapping[gtkName], normalizeColor(colors[gtkName]))
    ELSE palette

----------------------------------------------------------------------------
(* The same two loops as functions of their input, for the callers that    *)
(* use ExtractColors as one step: the set of results over every order in   *)
(* which the ranges can visit the keys.                                    *)

\* maxIterations of resolveColorReferences
maxIterations == 10

\* every table resolveColorReferences can return, from the loop state given
RECURSIVE ResolveRuns(_, _, _, _, _)
ResolveRuns(cols, res, i, chg, visit) ==
    IF visit = {}
    THEN IF chg /\ i + 1 < maxIterations
         THEN ResolveRuns(cols, res, i + 1, FALSE, DOMAIN cols)
         ELSE {res}
    ELSE UNION {LET newValue == VisitEntry(cols, name)
                IN  ResolveRuns(Put(cols, name, newValue), Put(res, name, newValue),
                                i, chg \/ newValue # cols[name], visit \ {name})
                : name \in visit}

resolveColorReferences(cols) == ResolveRuns(cols, EmptyTable, 0, FALSE, DOMAIN cols)

\* every palette the loop over colorMapping can end with; an entry whose key
\* is not in the table leaves the palette as it is, so only the order of the
\* keys that are in the table matters
RECURSIVE BuildRuns(_, _, _)
BuildRuns(pal, cols, keys) ==
    IF keys = {} THEN {pal}
    ELSE UNION {BuildRuns(MapEntry(pal, cols, k), cols, keys \ {k}) : k \in keys}

generateStandardPalette(cols) ==
    BuildRuns(DefaultPalette, cols, (DOMAIN colorMapping) \cap (DOMAIN cols))

\* the palettes ExtractColors can return for a stylesheet
ExtractRuns(css) ==
    UNION {generateStandardPalette(r) : r \in resolveColorReferences(ParseColors(css))}

----------------------------------------------------------------------------
(* 4.5 Template fill engine.                                               *)

\* one iteration of `for name, value := range palette.Colors`
FillStep(output, pal, name) == ReplaceAll(output, "{" \o name \o "}", pal.Colors[name])

RECURSIVE FillColors(_, _, _)
FillColors(output, pal, order) ==
    IF order = <<>> THEN output
    ELSE CHOOSE r \in {FillColors(o, pal, rest) :
                         o \in {FillStep(output, pal, Head(order))},
                         rest \in {Tail(order)}} : TRUE

\* fillTemplate, the range over palette.Colors visiting the keys in `order`
fillTemplate(template, pal, order) ==
    CHOOSE r \in {FillColors(o3, pal, order) :
        o3 \in {ReplaceAll(o2, "{cursor}", pal.Cursor) :
        o2 \in {ReplaceAll(o1, "{foreground}", pal.Foreground) :
        o1 \in {ReplaceAll(template, "{background}", pal.Background)}}}} : TRUE

----------------------------------------------------------------------------
(* State.                                                                  *)

VARIABLES
    \* one run of ColorExtractor.ExtractColors, statement by statement
    content,        \* the text of gtk.css
    input,          \* the table as handed to resolveColorReferences
    colors,         \* the map `colors`, rewritten in place by the resolver
    resolved,       \* the map `resolved`
    iter,           \* the pass counter i of the resolver
    changed,        \* the flag `changed` of the current pass
    toVisit,        \* keys of colors the current pass has not visited yet
    palette,        \* the palette under construction
    toMap,          \* keys of colorMapping the builder has not visited yet
    pc,             \* "parse", "resolve", "build", "done", or "idle"
    \* the ColorSyncManager and the files it reads and writes
    config,         \* csm.config
    configFile,     \* the content of color-sync.json
    templateFiles,  \* the template directory: application -> file
    destFiles,      \* the destination files: application -> file
    calls,          \* the ApplyTheme goroutines started so far
    changes,        \* how many settings the user has changed so far
    \* one run of TemplateManager.fillTemplate (the template is `content`)
    output,         \* the string `output`
    toFill,         \* keys of palette.Colors the range still visits, in its order
    \* one call of ColorExtractor.normalizeColor
    color,          \* the argument
    normalized,     \* the returned string
    \* the file ExportCurrentPalette writes
    exportFile,     \* the palette it holds (NoPalette: no such file)
    \* the "Apply Colors Now" button and its label
    statusLabel,    \* the text of statusLabel
    clicks          \* the calls the button started: index -> whether the
                    \* goroutine around the call has set the label

extractVars == <<content, input, colors, resolved, iter, changed, toVisit,
                 palette, toMap, pc>>

syncVars == <<config, configFile, templateFiles, destFiles, calls, changes>>

fillVars == <<output, toFill>>

uiVars == <<statusLabel, clicks>>

normVars == <<color, normalized>>

vars == <<content, input, colors, resolved, iter, changed, toVisit, palette,
          toMap, pc, config, configFile, templateFiles, destFiles, calls,
          changes, output, toFill, color, normalized, exportFile, statusLabel,
          clicks>>

----------------------------------------------------------------------------
(* ColorExtractor.ExtractColors, from the file content on.                 *)

\* lines 72-104: both scans fill `colors`, which is handed to the resolver
Parse ==
    /\ pc = "parse"
    /\ colors' = ParseColors(content)
    /\ input' = colors'
    /\ resolved' = EmptyTable
    /\ iter' = 0
    /\ changed' = FALSE
    /\ toVisit' = DOMAIN colors'
    /\ pc' = "resolve"
    /\ UNCHANGED <<content, palette, toMap>>
    /\ UNCHANGED syncVars
    /\ UNCHANGED <<fillVars, normVars, exportFile, uiVars>>

\* a variant of ResolveVisit that stores into `resolved` only what it changed,
\* as if line 134 stood inside the `if newValue != value` block
ResolveVisitChangedOnly ==
    /\ pc = "resolve"
    /\ \E name \in toVisit :
         LET newValue == VisitEntry(colors, name)
         IN  /\ colors' = Put(colors, name, newValue)
             /\ changed' = (changed \/ newValue # colors[name])
             /\ resolved' = IF newValue # colors[name]
                            THEN Put(resolved, name, newValue)
                            ELSE resolved
             /\ toVisit' = toVisit \ {name}
    /\ UNCHANGED <<content, input, iter, palette, toMap, pc>>
    /\ UNCHANGED syncVars
    /\ UNCHANGED <<fillVars, normVars, exportFile, uiVars>>

\* one iteration of `for name, value := range colors`
ResolveVisit ==
    /\ pc = "resolve"
    /\ \E name \in toVisit :
         LET newValue == VisitEntry(colors, name)
         IN  /\ colors' = Put(colors, name, newValue)
             /\ changed' = (changed \/ newValue # colors[name])
             /\ resolved' = Put(resolved, name, newValue)
             /\ toVisit' = toVisit \ {name}
    /\ UNCHANGED <<content, input, iter, palette, toMap, pc>>
    /\ UNCHANGED syncVars
    /\ UNCHANGED <<fillVars, normVars, exportFile, uiVars>>

\* a variant of ResolvePassEnd that allows one pass more, as if the loop
\* test were `i <= maxIterations`
ResolvePassEndOneMore ==
    /\ pc = "resolve"
    /\ toVisit = {}
    /\ IF changed /\ iter + 1 <= maxIterations
       THEN /\ iter' = iter + 1
            /\ changed' = FALSE
            /\ toVisit' = DOMAIN colors
            /\ UNCHANGED <<colors, palette, toMap, pc>>
       ELSE /\ colors' = resolved
            /\ palette' = DefaultPalette
            /\ toMap' = DOMAIN colorMapping
            /\ pc' = "build"
            /\ UNCHANGED <<iter, changed, toVisit>>
    /\ UNCHANGED <<content, input, resolved>>
    /\ UNCHANGED syncVars
    /\ UNCHANGED <<fillVars, normVars, exportFile, uiVars>>

\* the end of a pass: `if !changed { break }`, else i++ and the loop test;
\* on leaving the loop the resolver returns `resolved`, ExtractColors stores
\* it in `colors` and generateStandardPalette starts from the defaults
ResolvePassEnd ==
    /\ pc = "resolve"
    /\ toVisit = {}
    /\ IF changed /\ iter + 1 < maxIterations
       THEN /\ iter' = iter + 1
            /\ changed' = FALSE
            /\ toVisit' = DOMAIN colors
            /\ UNCHANGED <<colors, palette, toMap, pc>>
       ELSE /\ colors' = resolved
            /\ palette' = DefaultPalette
            /\ toMap' = DOMAIN colorMapping
            /\ pc' = "build"
            /\ UNCHANGED <<iter, changed, toVisit>>
    /\ UNCHANGED <<content, input, resolved>>
    /\ UNCHANGED syncVars
    /\ UNCHANGED <<fillVars, normVars, exportFile, uiVars>>

\* one iteration of `for gtkName, stdName := range colorMapping`
BuildVisit ==
    /\ pc = "build"
    /\ \E gtkName \in toMap :
         /\ palette' = MapEntry(palette, colors, gtkName)
         /\ toMap' = toMap \ {gtkName}
    /\ UNCHANGED <<content, input, colors, resolved, iter, changed, toVisit, pc>>
    /\ UNCHANGED syncVars
    /\ UNCHANGED <<fillVars, normVars, exportFile, uiVars>>

\* `return palette`
BuildReturn ==
    /\ pc = "build"
    /\ toMap = {}
    /\ pc' = "done"
    /\ UNCHANGED <<content, input, colors, resolved, iter, changed, toVisit,
                   palette, toMap>>
    /\ UNCHANGED syncVars
    /\ UNCHANGED <<fillVars, normVars, exportFile, uiVars>>

----------------------------------------------------------------------------
(* The files and settings around the ColorSyncManager.                     *)

\* GetApplications, in its order
GetApplications == <<"alacritty", "waybar", "kitty", "rofi", "dunst", "foot", "termite">>

\* how many of the applications the model carries
NumApps == 2

Apps == {GetApplications[n] : n \in 1..NumApps}

\* appNames of ApplyColors, inverted: application -> template file name
TemplateOf(app) ==
    CASE app = "alacritty" -> "alacritty.yml"
      [] app = "waybar"    -> "waybar-colors.css"
      [] app = "kitty"     -> "kitty.conf"
      [] app = "rofi"      -> "rofi-colors.rasi"
      [] app = "dunst"     -> "dunst-colors.conf"
      [] app = "foot"      -> "foot.ini"
      [] app = "termite"   -> "termite-colors.ini"

\* the keys of `destinations` (and of `appNames`) for the applications carried
TemplateNames == {TemplateOf(app) : app \in Apps}

\* appNames[templateName]
appNames(templateName) == CHOOSE app \in Apps : TemplateOf(app) = templateName

\* a file that does not exist, and one that exists but cannot be read
NoFile == [exists |-> FALSE, readable |-> FALSE, text |-> ""]

Unreadable == [exists |-> TRUE, readable |-> FALSE, text |-> ""]

File(text) == [exists |-> TRUE, readable |-> TRUE, text |-> text]

\* the text of a template file: the files are the user's to edit, and these
\* short texts use tokens of the compiled-in templates
TemplateText(templateName) ==
    CASE templateName = "alacritty.yml"     -> "red: '{color1}'\n"
      [] templateName = "waybar-colors.css" -> "@define-color bg {background};\n"
      [] templateName = "kitty.conf"        -> "foreground {foreground}\n"
      [] OTHER                              -> "cursor={cursor}\n"

\* the theme directories below ce.themePaths: whether <theme>/gtk-3.0 exists
\* and what its gtk.css is
Themes == {"Adwaita", "Dracula", "Bare", "Gone"}

ThemeDirExists(themeName) == themeName # "Gone"

CssFile(themeName) ==
    CASE themeName = "Adwaita" ->
           File("@define-color theme_bg_color #fafafa;\n@define-color error_color rgb(224, 27, 36);\n")
      [] themeName = "Dracula" ->
           File("@define-color theme_bg_color #282a36;\n")
      [] OTHER -> NoFile

\* config.LastColors == nil
NoPalette == [Background |-> "", Foreground |-> "", Cursor |-> "",
              Colors |-> EmptyTable]

\* the default configuration of loadConfig for the applications carried
DefaultApplications == [app \in Apps |-> app # "termite"]

\* ColorSyncManager.IsAppEnabled
IsAppEnabled(cfg, appName) ==
    appName \in DOMAIN cfg.Applications /\ cfg.Applications[appName]

\* two of the orders in which a range over palette.Colors can visit its keys
ColorOrders ==
    {<<"color0", "color1", "color2", "color3", "color4", "color5", "color6",
       "color7", "color8", "color9", "color10", "color11", "color12",
       "color13", "color14", "color15">>,
     <<"color15", "color14", "color13", "color12", "color11", "color10",
       "color9", "color8", "color7", "color6", "color5", "color4", "color3",
       "color2", "color1", "color0">>}

----------------------------------------------------------------------------
(* ColorSyncManager.ApplyTheme, one goroutine per request.                 *)

\* how many ApplyTheme goroutines the model starts
MaxApplies == 2

\* how many settings changes the model lets the user make
MaxChanges == 1

\* a goroutine that has been started and has not run yet
NewCall(themeName) ==
    [themeName |-> themeName,
     pc        |-> "start",
     palette   |-> NoPalette,     \* the local `palette`
     todo      |-> {},            \* keys of `destinations` not visited yet
     log       |-> EmptyTable,    \* what ApplyColors logged per template
     err       |-> "nil"]         \* what ApplyTheme returned

\* a variant of ExtractError without the test for gtk.css, as if the
\* existence test of lines 68-70 were missing
ExtractErrorDirOnly(themeName) ==
    IF ~ThemeDirExists(themeName) THEN "theme not found" ELSE "nil"

\* the error of ExtractColors before it reads the file ("nil": none)
ExtractError(themeName) ==
    IF ~ThemeDirExists(themeName) THEN "theme not found"
    ELSE IF ~CssFile(themeName).exists THEN "gtk.css not found"
    ELSE IF ~CssFile(themeName).readable THEN "failed to read css file"
    ELSE "nil"

\* what the loop body of ApplyColors does for one template, as it logs it;
\* writeOk: whether os.WriteFile to the destination succeeds
VisitOutcome(cfg, tfiles, templateName, writeOk) ==
    LET appName == appNames(templateName)
    IN  IF appName \in DOMAIN cfg.Applications /\ ~cfg.Applications[appName]
        THEN "Skipping (disabled)"
        ELSE IF ~tfiles[templateName].exists THEN "Template not found"
        ELSE IF ~tfiles[templateName].readable THEN "Failed to read template"
        ELSE IF ~writeOk THEN "Failed to write"
        ELSE "Applied colors"

\* a variant of Remaining that leaves the loop at the first failure, as if a
\* failing branch returned the error instead of going on
RemainingUntilFailure(todo, templateName, outcome) ==
    IF outcome \in {"Template not found", "Failed to read template", "Failed to write"}
    THEN {}
    ELSE todo \ {templateName}

\* the templates the loop of ApplyColors still visits after this one: every
\* branch of the body ends the iteration only (`continue`)
Remaining(todo, templateName, outcome) == todo \ {templateName}

\* onThemeChanged(themeName)
onThemeChanged ==
    /\ pc = "idle"
    /\ Len(calls) < MaxApplies
    /\ config.Enabled /\ config.AutoApply
    /\ \E themeName \in Themes : calls' = Append(calls, NewCall(themeName))
    /\ UNCHANGED <<config, configFile, templateFiles, destFiles, changes>>
    /\ UNCHANGED extractVars
    /\ UNCHANGED <<fillVars, normVars, exportFile, uiVars>>

\* the texts of statusLabel, without the span markup and the leading mark
Applying(themeName) == "Applying colors from <b>" \o themeName \o "</b>..."

Failed(err) == "Error: " \o err

Succeeded == "Colors applied successfully!"

\* how many times the model lets the user click "Apply Colors Now"
MaxClicks == 1

\* the "clicked" handler of the "Apply Colors Now" button, for a non-empty
\* gsettings.gtkTheme: it sets the label and starts the goroutine
ApplyClicked ==
    /\ pc = "idle"
    /\ Len(calls) < MaxApplies
    /\ Cardinality(DOMAIN clicks) < MaxClicks
    /\ \E themeName \in Themes :
         /\ calls' = Append(calls, NewCall(themeName))
         /\ statusLabel' = Applying(themeName)
    /\ clicks' = Put(clicks, Len(calls) + 1, FALSE)
    /\ UNCHANGED <<config, configFile, templateFiles, destFiles, changes>>
    /\ UNCHANGED extractVars
    /\ UNCHANGED <<fillVars, normVars, exportFile>>

\* the goroutine of the handler after ApplyTheme has returned
ShowResult(k) ==
    /\ k \in DOMAIN clicks
    /\ ~clicks[k]
    /\ calls[k].pc = "done"
    /\ statusLabel' = IF calls[k].err # "nil" THEN Failed(calls[k].err) ELSE Succeeded
    /\ clicks' = Put(clicks, k, TRUE)
    /\ UNCHANGED syncVars
    /\ UNCHANGED extractVars
    /\ UNCHANGED <<fillVars, normVars, exportFile>>

\* ApplyTheme up to the call of ApplyColors: the Enabled test and
\* ExtractColors
Begin(k) ==
    /\ calls[k].pc = "start"
    /\ IF ~config.Enabled
       THEN calls' = [calls EXCEPT ![k].pc = "done"]
       ELSE IF ExtractError(calls[k].themeName) # "nil"
       THEN calls' = [calls EXCEPT ![k].pc = "done",
                                   ![k].err = ExtractError(calls[k].themeName)]
       ELSE \E p \in ExtractRuns(CssFile(calls[k].themeName).text) :
              calls' = [calls EXCEPT ![k].pc = "apply",
                                     ![k].palette = p,
                                     ![k].todo = TemplateNames]
    /\ UNCHANGED <<config, configFile, templateFiles, destFiles, changes>>
    /\ UNCHANGED extractVars
    /\ UNCHANGED <<fillVars, normVars, exportFile, uiVars>>

\* one iteration of `for templateName, destPath := range destinations`
ApplyVisit(k) ==
    /\ calls[k].pc = "apply"
    /\ \E templateName \in calls[k].todo, writeOk \in BOOLEAN :
         LET outcome == VisitOutcome(config, templateFiles, templateName, writeOk)
         IN  /\ calls' = [calls EXCEPT
                   ![k].todo = Remaining(calls[k].todo, templateName, outcome),
                   ![k].log = Put(calls[k].log, templateName, outcome)]
             /\ IF outcome = "Applied colors"
                THEN \E order \in ColorOrders :
                       destFiles' = [destFiles EXCEPT ![templateName] =
                          File(fillTemplate(templateFiles[templateName].text,
                                            calls[k].palette, order))]
                ELSE destFiles' = destFiles
    /\ UNCHANGED <<config, configFile, templateFiles, changes>>
    /\ UNCHANGED extractVars
    /\ UNCHANGED <<fillVars, normVars, exportFile, uiVars>>

\* ApplyColors returns nil; csm.config.LastTheme = themeName
SetLastTheme(k) ==
    /\ calls[k].pc = "apply"
    /\ calls[k].todo = {}
    /\ config' = [config EXCEPT !.LastTheme = calls[k].themeName]
    /\ calls' = [calls EXCEPT ![k].pc = "setColors"]
    /\ UNCHANGED <<configFile, templateFiles, destFiles, changes>>
    /\ UNCHANGED extractVars
    /\ UNCHANGED <<fillVars, normVars, exportFile, uiVars>>

\* csm.config.LastColors = palette
SetLastColors(k) ==
    /\ calls[k].pc = "setColors"
    /\ config' = [config EXCEPT !.LastColors = calls[k].palette]
    /\ calls' = [calls EXCEPT ![k].pc = "save"]
    /\ UNCHANGED <<configFile, templateFiles, destFiles, changes>>
    /\ UNCHANGED extractVars
    /\ UNCHANGED <<fillVars, normVars, exportFile, uiVars>>

\* csm.saveConfig(); return nil
SaveAndReturn(k) ==
    /\ calls[k].pc = "save"
    /\ configFile' = config
    /\ calls' = [calls EXCEPT ![k].pc = "done"]
    /\ UNCHANGED <<config, templateFiles, destFiles, changes>>
    /\ UNCHANGED extractVars
    /\ UNCHANGED <<fillVars, normVars, exportFile, uiVars>>

\* SetEnabled(enabled), from the "state-set" handler of the switch
SetEnabled ==
    /\ pc = "idle"
    /\ changes < MaxChanges
    /\ \E enabled \in BOOLEAN :
         /\ enabled # config.Enabled
         /\ config' = [config EXCEPT !.Enabled = enabled]
    /\ configFile' = config'
    /\ changes' = changes + 1
    /\ UNCHANGED <<templateFiles, destFiles, calls>>
    /\ UNCHANGED extractVars
    /\ UNCHANGED <<fillVars, normVars, exportFile, uiVars>>

\* SetAutoApply(autoApply)
SetAutoApply ==
    /\ pc = "idle"
    /\ changes < MaxChanges
    /\ \E autoApply \in BOOLEAN :
         /\ autoApply # config.AutoApply
         /\ config' = [config EXCEPT !.AutoApply = autoApply]
    /\ configFile' = config'
    /\ changes' = changes + 1
    /\ UNCHANGED <<templateFiles, destFiles, calls>>
    /\ UNCHANGED extractVars
    /\ UNCHANGED <<fillVars, normVars, exportFile, uiVars>>

\* SetAppEnabled(appName, enabled), from the "toggled" handler of a checkbox,
\* which shows IsAppEnabled(appName)
SetAppEnabled ==
    /\ pc = "idle"
    /\ changes < MaxChanges
    /\ \E appName \in Apps :
         config' = [config EXCEPT !.Applications =
                      Put(config.Applications, appName, ~IsAppEnabled(config, appName))]
    /\ configFile' = config'
    /\ changes' = changes + 1
    /\ UNCHANGED <<templateFiles, destFiles, calls>>
    /\ UNCHANGED extractVars
    /\ UNCHANGED <<fillVars, normVars, exportFile, uiVars>>

----------------------------------------------------------------------------
(* Specifications.                                                         *)

IdleExtract ==
    /\ content = ""
    /\ input = EmptyTable
    /\ colors = EmptyTable
    /\ resolved = EmptyTable
    /\ iter = 0
    /\ changed = FALSE
    /\ toVisit = {}
    /\ palette = NoPalette
    /\ toMap = {}
    /\ pc = "idle"

\* no fillTemplate and no normalizeColor is looked at on its own
IdleFill == output = "" /\ toFill = <<>>

IdleNormalize == color = "" /\ normalized = ""

\* the template directory after NewTemplateManager: every file is there
\* (created if it was absent), or one could not be created and another is
\* not readable
TemplateDirs ==
    LET all == [t \in TemplateNames |-> File(TemplateText(t))]
        one == TemplateOf(GetApplications[1])
        two == TemplateOf(GetApplications[2])
    IN  {all, [all EXCEPT ![one] = NoFile, ![two] = Unreadable]}

\* csm.config after loadConfig: the default configuration, or what a config
\* file with an empty "applications" object decodes to
LoadedConfigs ==
    {[Enabled |-> TRUE, AutoApply |-> TRUE, Applications |-> a,
      LastTheme |-> "", LastColors |-> NoPalette] : a \in {DefaultApplications, EmptyTable}}

\* after initColorSync
Init ==
    /\ IdleExtract
    /\ IdleFill
    /\ IdleNormalize
    /\ config \in LoadedConfigs
    /\ configFile = config
    /\ templateFiles \in TemplateDirs
    /\ destFiles = [t \in TemplateNames |-> NoFile]
    /\ calls = <<>>
    /\ changes = 0
    /\ exportFile = NoPalette
    /\ statusLabel = ""
    /\ clicks = EmptyTable

Next ==
    \/ onThemeChanged
    \/ ApplyClicked
    \/ \E k \in DOMAIN calls : Begin(k)
    \/ \E k \in DOMAIN calls : ApplyVisit(k)
    \/ \E k \in DOMAIN calls : SetLastTheme(k)
    \/ \E k \in DOMAIN calls : SetLastColors(k)
    \/ \E k \in DOMAIN calls : SaveAndReturn(k)
    \/ \E k \in DOMAIN calls : ShowResult(k)
    \/ SetEnabled
    \/ SetAutoApply
    \/ SetAppEnabled

Spec == Init /\ [][Next]_vars

----------------------------------------------------------------------------
(* ExtractColors alone, from the text of gtk.css to the returned palette.   *)

\* the ColorSyncManager at rest, while an extraction is looked at on its own
IdleSync ==
    /\ config = [Enabled |-> TRUE, AutoApply |-> TRUE,
                 Applications |-> DefaultApplications,
                 LastTheme |-> "", LastColors |-> NoPalette]
    /\ configFile = config
    /\ templateFiles = [t \in TemplateNames |-> File(TemplateText(t))]
    /\ destFiles = [t \in TemplateNames |-> NoFile]
    /\ calls = <<>>
    /\ changes = 0
    /\ exportFile = NoPalette
    /\ statusLabel = ""
    /\ clicks = EmptyTable

\* declarations a gtk.css is put together from
Declarations ==
    {"@define-color theme_bg_color #202020;",
     "@define-color theme_selected_bg_color @theme_bg_color;",
     "@define-color theme_bg_color  ;",
     "@define-color theme_fg_color rgb(238, 238, 236);",
     "@define-color theme_base_color #ffffff;",
     "--accent-bg-color: #3584e4;"}

\* how many declarations a stylesheet of the model has at most
MaxDecls == 2

\* the stylesheets of at most n declarations, separated by a space
RECURSIVE Sheets(_)
Sheets(n) ==
    IF n = 0 THEN {""}
    ELSE Sheets(n - 1) \cup Declarations
         \cup {css \o " " \o d : css \in Sheets(n - 1) \ {""}, d \in Declarations}

Stylesheets == Sheets(MaxDecls)

InitExtract ==
    /\ content \in Stylesheets
    /\ input = EmptyTable
    /\ colors = EmptyTable
    /\ resolved = EmptyTable
    /\ iter = 0
    /\ changed = FALSE
    /\ toVisit = {}
    /\ palette = NoPalette
    /\ toMap = {}
    /\ pc = "parse"
    /\ IdleSync
    /\ IdleFill
    /\ IdleNormalize

NextExtract ==
    \/ Parse
    \/ ResolveVisit
    \/ ResolvePassEnd
    \/ BuildVisit
    \/ BuildReturn

SpecExtract == InitExtract /\ [][NextExtract]_vars

----------------------------------------------------------------------------
(* Properties of ExtractColors.                                            *)

\* the 19 slots of a palette, by name
SlotNames == {"background", "foreground", "cursor"} \cup ColorKeys

\* the value of a slot (of a palette that has the slot)
Slot(p, slotName) ==
    CASE slotName = "background" -> p.Background
      [] slotName = "foreground" -> p.Foreground
      [] slotName = "cursor"     -> p.Cursor
      [] OTHER                   -> p.Colors[slotName]

\* the stylesheet of the end-to-end example
C2_Sheet ==
    "@define-color theme_bg_color #202020; @define-color theme_selected_bg_color @theme_bg_color;"

\* C2: end to end through ExtractColors, the stylesheet
\* `@define-color theme_bg_color #202020; @define-color
\* theme_selected_bg_color @theme_bg_color;` gives a table in which
\* theme_selected_bg_color is #202020 and a palette whose color4 is #202020
\* while every other slot keeps its default value.
C2_EndToEnd ==
    (pc = "done" /\ content = C2_Sheet) =>
        /\ "theme_selected_bg_color" \in DOMAIN resolved
        /\ resolved["theme_selected_bg_color"] = "#202020"
        /\ palette.Colors["color4"] = "#202020"
        /\ \A slotName \in SlotNames \ {"color4"} :
             Slot(palette, slotName) = Slot(DefaultPalette, slotName)

\* C7: whatever the parser stored, the palette ExtractColors returns has all
\* 19 slots (background, foreground, cursor, color0..color15), each a
\* non-empty string.
C7_AllSlotsNonEmpty ==
    pc = "done" =>
        /\ DOMAIN palette.Colors = ColorKeys
        /\ \A slotName \in SlotNames : Slot(palette, slotName) # ""

\* what a reader of `@define-color name value;` declarations stores, in
\* document order: for each declaration, the name after the keyword and
\* everything between the name and the ';', trimmed
RECURSIVE Declared(_, _, _)
Declared(s, i, table) ==
    LET k    == IndexFrom(s, "@define-color", i)
        semi == IF k = 0 THEN 0 ELSE IndexFrom(s, ";", k)
        b    == RunEnd(s, k + Len("@define-color"), SpaceChar)
        c    == RunEnd(s, b, WordChar)
    IN  IF k = 0 \/ semi = 0 THEN table
        ELSE Declared(s, semi + 1,
                      Put(table, SubSeq(s, b, c - 1), TrimSpace(SubSeq(s, c, semi - 1))))

\* C15: the parser is last-write-wins in document order: for a stylesheet of
\* `@define-color name value;` declarations only, the table has exactly one
\* entry per declared name, holding the trimmed value of the last declaration
\* of that name; and the two scans (all @define-color first, all --name
\* second) never write the same name, so neither form overwrites the other
\* out of document order.
C15_LastWriteWins ==
    pc # "parse" =>
        /\ ~Contains(content, "--") => input = Declared(content, 1, EmptyTable)
        /\ DOMAIN StoreDefines(content, 1, EmptyTable)
              \cap DOMAIN StoreVars(content, 1, EmptyTable) = {}

----------------------------------------------------------------------------
(* resolveColorReferences alone, on tables that hold references.           *)

\* how many entries a table handed to the resolver has at most
MaxEntries == 3

\* the values an entry of such a table can have, per name: literals, chains,
\* a reference next to one that it is a prefix of, the 2-cycle a <-> b,
\* self-references (one that grows with every pass), unknown targets
RawValues(name) ==
    CASE name = "bg"      -> {"#101010", "@bg_dark", "@zz"}
      [] name = "bg_dark" -> {"#202020", "@bg", "rgb(1, 2, 3)"}
      [] name = "v"       -> {"#303030", "@bg", "@bg_dark", "@bg @bg_dark", "@v",
                              "@v.", "@zz"}
      [] name = "a"       -> {"@b"}
      [] name = "b"       -> {"@a"}

RawNames == {"bg", "bg_dark", "v", "a", "b"}

RawTables ==
    {t \in UNION {[D -> UNION {RawValues(n) : n \in RawNames}] : D \in SUBSET RawNames} :
       /\ Cardinality(DOMAIN t) <= MaxEntries
       /\ \A n \in DOMAIN t : t[n] \in RawValues(n)}

InitResolve ==
    /\ content = ""
    /\ input \in RawTables
    /\ colors = input
    /\ resolved = EmptyTable
    /\ iter = 0
    /\ changed = FALSE
    /\ toVisit = DOMAIN input
    /\ palette = NoPalette
    /\ toMap = {}
    /\ pc = "resolve"
    /\ IdleSync
    /\ IdleFill
    /\ IdleNormalize

NextResolve ==
    \/ ResolveVisit
    \/ ResolvePassEnd

SpecResolve == InitResolve /\ [][NextResolve]_vars

\* the resolver runs to its end: the loops of lines 116-139 are sequential
\* code that keeps executing
SpecResolveFair == SpecResolve /\ WF_vars(NextResolve)

\* C12: resolveColorReferences terminates on every input table, cyclic ones
\* included: it returns, it executes at most 10 passes over the table, and
\* it stops right after the first pass in which no entry changed.
C12_Terminates ==
    /\ <>(pc = "build")
    /\ [](iter < maxIterations)
    /\ [][(pc = "resolve" /\ toVisit = {} /\ ~changed) => pc' = "build"]_vars

\* the resolver has returned after its tenth pass, which still changed an entry
C12_Witness == pc = "build" /\ iter = maxIterations - 1 /\ changed

\* the names a value refers to: the word after each '@'
Refs(value) ==
    {SubSeq(value, i + 1, RunEnd(value, i + 1, WordChar) - 1) :
       i \in {i \in 1..(Len(value) - 1) :
                Char(value, i) = "@" /\ Char(value, i + 1) \in WordChar}}

\* value with every reference to a name of t replaced by that name's value,
\* expanded in turn, following chains up to `depth` entries deep
RECURSIVE Expand(_, _, _)
Expand(t, value, depth) ==
    LET i   == IndexFrom(value, "@", 1)
        j   == RunEnd(value, i + 1, WordChar)
        ref == SubSeq(value, i + 1, j - 1)
    IN  IF i = 0 THEN value
        ELSE SubSeq(value, 1, i - 1)
             \o (IF ref \in DOMAIN t /\ depth > 0
                 THEN Expand(t, t[ref], depth - 1)
                 ELSE "@" \o ref)
             \o Expand(t, SubSeq(value, j, Len(value)), depth)

\* C1: the table resolveColorReferences returns maps each name whose value
\* is a fully resolvable chain of references to the literal that results
\* from replacing every reference by its target's resolved value, with no
\* '@' left, and leaves a value whose reference targets are not names of
\* the table as it was, whatever the order in which the entries are scanned.
C1_Resolved ==
    pc = "build" =>
        \A name \in DOMAIN input :
            LET literal == Expand(input, input[name], Cardinality(DOMAIN input))
            IN  /\ name \in DOMAIN resolved
                /\ ~Contains(literal, "@") => resolved[name] = literal
                /\ (Refs(input[name]) # {} /\ Refs(input[name]) \cap DOMAIN input = {})
                      => resolved[name] = input[name]

\* the table of the 2-cycle
C13_Cycle == [n \in {"a", "b"} |-> IF n = "a" THEN "@b" ELSE "@a"]

\* C13: for the 2-cycle table {a: @b, b: @a} every run of
\* resolveColorReferences returns the same table, whatever the order in
\* which the entries are scanned within a pass.
C13_Deterministic ==
    (pc = "build" /\ input = C13_Cycle) => resolveColorReferences(input) = {resolved}

\* C14: for a table in which no value contains '@', resolveColorReferences
\* returns a table equal to its input, with the same names and the same
\* value for each name, after a single pass.
C14_Idempotent ==
    (pc = "build" /\ \A name \in DOMAIN input : ~Contains(input[name], "@")) =>
        /\ DOMAIN resolved = DOMAIN input
        /\ resolved = input
        /\ iter = 0

\* the resolver has returned for a table of several literals
C14_Witness ==
    /\ pc = "build"
    /\ Cardinality(DOMAIN input) >= 2
    /\ \A name \in DOMAIN input : ~Contains(input[name], "@")

\* value with every reference to refName itself replaced by refValue: an
\* occurrence of "@" \o refName counts only when no word character follows
RECURSIVE SubstituteWhole(_, _, _, _)
SubstituteWhole(value, refName, refValue, i) ==
    LET k == IndexFrom(value, "@" \o refName, i)
        e == k + Len(refName) + 1
    IN  IF k = 0 THEN SubSeq(value, i, Len(value))
        ELSE IF e <= Len(value) /\ Char(value, e) \in WordChar
             THEN SubSeq(value, i, e - 1) \o SubstituteWhole(value, refName, refValue, e)
             ELSE SubSeq(value, i, k - 1) \o refValue
                    \o SubstituteWhole(value, refName, refValue, e)

\* C19: when a pass substitutes the leftmost reference @r of a value, it
\* replaces the references to r itself and leaves a reference to a longer
\* name that starts with r (such as @bg_dark for r = bg) as it is.
C19_WholeNames ==
    [][\A name \in DOMAIN colors :
          (pc = "resolve" /\ name \in toVisit /\ name \notin toVisit'
             /\ RefName(colors[name]) \in DOMAIN colors) =>
              colors'[name] = SubstituteWhole(colors[name], RefName(colors[name]),
                                              colors[RefName(colors[name])], 1)]_vars

----------------------------------------------------------------------------
(* generateStandardPalette alone, on resolved tables.                      *)

\* how many entries a table handed to the builder has at most
MaxKeys == 2

\* the theme keys of the tables: the keys the name mapping is specified for
ThemeKeys ==
    {"theme_bg_color", "theme_fg_color", "theme_base_color", "theme_text_color",
     "theme_selected_bg_color", "theme_selected_fg_color", "warning_color",
     "error_color", "success_color"}

ThemeValues == {"#202020", "rgb(255, 0, 128)"}

ResolvedTables ==
    UNION {[D -> ThemeValues] : D \in {D \in SUBSET ThemeKeys : Cardinality(D) <= MaxKeys}}

InitPalette ==
    /\ content = ""
    /\ input = EmptyTable
    /\ colors \in ResolvedTables
    /\ resolved = colors
    /\ iter = 0
    /\ changed = FALSE
    /\ toVisit = {}
    /\ palette = DefaultPalette
    /\ toMap = DOMAIN colorMapping
    /\ pc = "build"
    /\ IdleSync
    /\ IdleFill
    /\ IdleNormalize

NextPalette ==
    \/ BuildVisit
    \/ BuildReturn

SpecPalette == InitPalette /\ [][NextPalette]_vars

\* C3: the palette generateStandardPalette returns does not depend on the
\* order in which the entries of the name mapping are processed: every
\* processing order yields the palette this run returned.
C3_OrderIndependent ==
    pc = "done" => generateStandardPalette(colors) = {palette}

\* the name mapping as specified: nine entries, theme key -> palette slot
NineEntries ==
    [gtkName \in ThemeKeys |->
        CASE gtkName \in {"theme_bg_color", "theme_base_color"} -> "background"
          [] gtkName \in {"theme_fg_color", "theme_text_color",
                          "theme_selected_fg_color"}             -> "foreground"
          [] gtkName = "theme_selected_bg_color"                 -> "color4"
          [] gtkName = "warning_color"                           -> "color3"
          [] gtkName = "error_color"                             -> "color1"
          [] gtkName = "success_color"                           -> "color2"]

\* C6: after the build, a slot that exactly one present key of the nine
\* entries maps to holds the normalized value of that key, and a slot that
\* no present key maps to holds its built-in default.
C6_NineEntries ==
    pc = "done" =>
        \A slotName \in SlotNames :
            LET present == {g \in ThemeKeys \cap DOMAIN colors : NineEntries[g] = slotName}
            IN  /\ \A g \in present :
                     present = {g} => Slot(palette, slotName) = normalizeColor(colors[g])
                /\ present = {} => Slot(palette, slotName) = Slot(DefaultPalette, slotName)

----------------------------------------------------------------------------
(* Properties of the ColorSyncManager.                                     *)

\* the calls of ApplyTheme that have passed the Enabled test and have not
\* returned yet
InFlight == {k \in DOMAIN calls : calls[k].pc \in {"apply", "setColors", "save"}}

\* C4: at any time at most one apply is in flight: a new apply does not
\* start before the previous one has finished.
C4_OneInFlight == Cardinality(InFlight) <= 1

\* C5: whenever no apply is in flight, the persisted state holds a matching
\* pair: LastColors is the palette that one successful call of ApplyTheme
\* built for the theme named LastTheme.
C5_MatchingPair ==
    (InFlight = {} /\ configFile.LastTheme # "") =>
        \E k \in DOMAIN calls :
            /\ calls[k].pc = "done"
            /\ calls[k].err = "nil"
            /\ calls[k].palette # NoPalette
            /\ calls[k].themeName = configFile.LastTheme
            /\ calls[k].palette = configFile.LastColors

\* C8: ApplyColors writes the destination of an application only if
\* IsAppEnabled reports the application enabled (present in the set with the
\* value true), and fills the template of an enabled application whose
\* template exists and is readable.
C8_OnlyEnabled ==
    [][\A k \in DOMAIN calls, t \in TemplateNames :
          (calls[k].pc = "apply" /\ t \in calls[k].todo
             /\ k \in DOMAIN calls' /\ t \notin calls'[k].todo) =>
              /\ destFiles'[t] # destFiles[t] => IsAppEnabled(config, appNames(t))
              /\ (IsAppEnabled(config, appNames(t)) /\ templateFiles[t].readable)
                    => calls'[k].log[t] \in {"Applied colors", "Failed to write"}]_vars

\* the theme directory or its gtk.css is absent
Absent(themeName) == ~ThemeDirExists(themeName) \/ ~CssFile(themeName).exists

\* a step of call k of ApplyTheme that has no effect: no destination file is
\* written and the settings, in memory and on disk, stay as they are
NoEffect(k) ==
    /\ calls'[k].pc = "done"
    /\ calls'[k].log = EmptyTable
    /\ destFiles' = destFiles
    /\ config' = config
    /\ configFile' = configFile

\* C9, as stated: if the theme directory or its gtk.css is absent,
\* ApplyTheme aborts with an error before any effect.
C9_AbortsWithError ==
    [][\A k \in DOMAIN calls :
          (k \in DOMAIN calls' /\ calls'[k] # calls[k] /\ Absent(calls[k].themeName)) =>
              /\ NoEffect(k)
              /\ calls'[k].err # "nil"]_vars

\* C9, amended: if the theme directory or its gtk.css is absent, ApplyTheme
\* returns before any effect, and it returns an error exactly when colour
\* synchronisation is enabled at the time of the call; a disabled manager
\* returns nil without looking the theme up.
C9_AbortsNoEffect ==
    [][\A k \in DOMAIN calls :
          (k \in DOMAIN calls' /\ calls'[k] # calls[k] /\ Absent(calls[k].themeName)) =>
              /\ NoEffect(k)
              /\ calls'[k].err # "nil" <=> config.Enabled]_vars

\* a call for an absent theme has returned its error
C9_Witness ==
    \E k \in DOMAIN calls :
        /\ Absent(calls[k].themeName)
        /\ calls[k].pc = "done"
        /\ calls[k].err # "nil"

\* what ApplyColors logs when it could not produce a destination
Failures == {"Template not found", "Failed to read template", "Failed to write"}

\* C10: once the palette is built, a missing template, a failed read or a
\* failed write for one application does not keep ApplyColors from visiting
\* every other template in the same apply, and ApplyTheme returns nil
\* whatever subset of the destinations failed.
C10_Isolated ==
    \A k \in DOMAIN calls :
        /\ calls[k].pc \in {"setColors", "save", "done"} /\ calls[k].palette # NoPalette
              => DOMAIN calls[k].log = TemplateNames
        /\ calls[k].pc = "done" /\ calls[k].palette # NoPalette
              => calls[k].err = "nil"

\* an apply has returned after one destination failed and another was written
C10_Witness ==
    \E k \in DOMAIN calls :
        /\ calls[k].pc = "done"
        /\ \E t \in DOMAIN calls[k].log : calls[k].log[t] \in Failures
        /\ \E t \in DOMAIN calls[k].log : calls[k].log[t] = "Applied colors"

----------------------------------------------------------------------------
(* fillTemplate alone, on template texts and built palettes.               *)

\* lines 495-500: the three main tokens; the range over palette.Colors then
\* starts, in one of its orders
FillMain ==
    /\ pc = "fill"
    /\ output' = ReplaceAll(ReplaceAll(ReplaceAll(content,
                     "{background}", palette.Background),
                     "{foreground}", palette.Foreground),
                     "{cursor}", palette.Cursor)
    /\ toFill' \in ColorOrders
    /\ pc' = "fillColors"
    /\ UNCHANGED <<content, input, colors, resolved, iter, changed, toVisit,
                   palette, toMap>>
    /\ UNCHANGED <<syncVars, normVars, exportFile, uiVars>>

\* one iteration of `for name, value := range palette.Colors`
FillVisit ==
    /\ pc = "fillColors"
    /\ toFill # <<>>
    /\ output' = FillStep(output, palette, Head(toFill))
    /\ toFill' = Tail(toFill)
    /\ UNCHANGED extractVars
    /\ UNCHANGED <<syncVars, normVars, exportFile, uiVars>>

\* `return output`
FillReturn ==
    /\ pc = "fillColors"
    /\ toFill = <<>>
    /\ pc' = "filled"
    /\ UNCHANGED <<content, input, colors, resolved, iter, changed, toVisit,
                   palette, toMap>>
    /\ UNCHANGED <<fillVars, syncVars, normVars, exportFile, uiVars>>

\* how many pieces a template text of the model is put together from
MaxPieces == 3

Pieces == {"{", "}", "{background}", "{color1}", "{color10}", "{accent}", "bg="}

\* the texts of at most n pieces
RECURSIVE Texts(_)
Texts(n) ==
    IF n = 0 THEN {""}
    ELSE Texts(n - 1) \cup {text \o piece : text \in Texts(n - 1), piece \in Pieces}

\* resolved tables the palettes to fill in are built from
FillTables ==
    {EmptyTable,
     [theme_bg_color |-> "#202020", error_color |-> "rgb(255, 0, 128)"],
     [theme_bg_color |-> "color1"],
     [error_color |-> "color10"]}

InitFill ==
    /\ content \in Texts(MaxPieces)
    /\ input = EmptyTable
    /\ colors = EmptyTable
    /\ resolved = EmptyTable
    /\ iter = 0
    /\ changed = FALSE
    /\ toVisit = {}
    /\ palette \in UNION {generateStandardPalette(t) : t \in FillTables}
    /\ toMap = {}
    /\ pc = "fill"
    /\ IdleSync
    /\ IdleFill
    /\ IdleNormalize

NextFill ==
    \/ FillMain
    \/ FillVisit
    \/ FillReturn

SpecFill == InitFill /\ [][NextFill]_vars

\* the 19 recognized tokens
Tokens == {"{" \o slotName \o "}" : slotName \in SlotNames}

\* the token that starts at index i of s, "" if none does
TokenAt(s, i) ==
    LET T == {token \in Tokens : HasPrefixAt(s, i, token)}
    IN  IF T = {} THEN "" ELSE CHOOSE token \in T : TRUE

\* s from index i on, with every occurrence of a token replaced by the value
\* of its slot and all other text as it is
RECURSIVE Replaced(_, _, _)
Replaced(s, i, p) ==
    LET k     == IndexFrom(s, "{", i)
        token == TokenAt(s, k)
    IN  IF k = 0 THEN SubSeq(s, i, Len(s))
        ELSE IF token = "" THEN SubSeq(s, i, k) \o Replaced(s, k + 1, p)
        ELSE SubSeq(s, i, k - 1)
             \o Slot(p, SubSeq(token, 2, Len(token) - 1))
             \o Replaced(s, k + Len(token), p)

\* C11: fillTemplate returns the template with every occurrence of each of
\* the 19 tokens replaced by the value of its slot and all other text
\* unchanged, and the output contains no recognized token.
C11_Filled ==
    pc = "filled" =>
        /\ output = Replaced(content, 1, palette)
        /\ \A token \in Tokens : ~Contains(output, token)

----------------------------------------------------------------------------
(* normalizeColor alone, on the values a resolved table can hold.          *)

\* the call of normalizeColor on `color`
Normalize ==
    /\ pc = "normalize"
    /\ normalized' = normalizeColor(color)
    /\ pc' = "normalized"
    /\ UNCHANGED <<content, input, colors, resolved, iter, changed, toVisit,
                   palette, toMap, color>>
    /\ UNCHANGED <<fillVars, syncVars, exportFile, uiVars>>

\* rgb forms with and without whitespace after '(' and around the first
\* comma, in the spellings rgb, rgba and RGB
RgbForms ==
    {f \o "(" \o w1 \o r \o w2 \o "," \o w3 \o "0, 128"
       \o (IF f = "rgba" THEN ", 1)" ELSE ")") :
       f \in {"rgb", "rgba", "RGB"}, w1 \in {"", " "}, r \in {"255", "0", "7"},
       w2 \in {"", " "}, w3 \in {"", " "}}

\* values as the parser stores them (trimmed, of value characters): hex
\* literals, rgb forms, colour names, the empty value, broken rgb forms
ColorValues ==
    RgbForms \cup {"#ff0080", "#FFF", "#", "red", "", "rgb", "rgb(1,2)",
                   "rgba(0,0,0,1)", "rgb(0,0 ,9)", "shade(rgb(1, 2, 3), 0.5)",
                   "rgb(300, 16, 1)"}

InitNormalize ==
    /\ content = ""
    /\ input = EmptyTable
    /\ colors = EmptyTable
    /\ resolved = EmptyTable
    /\ iter = 0
    /\ changed = FALSE
    /\ toVisit = {}
    /\ palette = NoPalette
    /\ toMap = {}
    /\ pc = "normalize"
    /\ IdleSync
    /\ IdleFill
    /\ color \in ColorValues
    /\ normalized = ""

NextNormalize == Normalize

SpecNormalize == InitNormalize /\ [][NextNormalize]_vars

\* `rgba?\(\s*(\d+)\s*,\s*(\d+)\s*,\s*(\d+)` matched at index i: the rgb form
\* with optional whitespace after '(' and around each comma
ContractRgbAt(s, i) ==
    LET a  == IF Char(s, i + 3) = "a" THEN i + 4 ELSE i + 3
        r1 == RunEnd(s, a + 1, SpaceChar)
        r2 == RunEnd(s, r1, Digit)
        c1 == RunEnd(s, r2, SpaceChar)
        g1 == RunEnd(s, c1 + 1, SpaceChar)
        g2 == RunEnd(s, g1, Digit)
        c2 == RunEnd(s, g2, SpaceChar)
        b1 == RunEnd(s, c2 + 1, SpaceChar)
        b2 == RunEnd(s, b1, Digit)
    IN  IF /\ HasPrefixAt(s, i, "rgb")
           /\ Char(s, a) = "("
           /\ r2 > r1 /\ Char(s, c1) = ","
           /\ g2 > g1 /\ Char(s, c2) = ","
           /\ b2 > b1
        THEN [ok |-> TRUE, r |-> SubSeq(s, r1, r2 - 1), g |-> SubSeq(s, g1, g2 - 1),
              b |-> SubSeq(s, b1, b2 - 1)]
        ELSE NoRgb

\* the result the contract gives for s
Contract(s) ==
    LET I == {i \in 1..Len(s) : ContractRgbAt(s, i).ok}
        m == ContractRgbAt(s, Least(I))
    IN  IF HasPrefix(TrimSpace(s), "#") THEN s
        ELSE IF I # {}
             THEN "#" \o Hex02(Atoi(m.r)) \o Hex02(Atoi(m.g)) \o Hex02(Atoi(m.b))
             ELSE s

\* C16: normalizeColor returns, for every input: the input unchanged when it
\* starts with '#' after trimming; '#' and the two-digit lowercase hex of R,
\* G, B when it contains an rgb(R, G, B) or rgba(R, G, B, ...) form with
\* optional whitespace after '(' and around each comma; the input unchanged
\* in every other case.
C16_Contract ==
    pc = "normalized" => normalized = Contract(color)

----------------------------------------------------------------------------
(* The "Apply Colors Now" button.                                          *)

\* C18: the manual apply shows "Colors applied successfully!" only if that
\* request built a palette for the selected theme and went on to record it
\* as LastTheme/LastColors; with colour synchronisation disabled it does not
\* report success.
C18_SuccessIsApplied ==
    [][\A k \in DOMAIN clicks :
          (~clicks[k] /\ clicks'[k] /\ statusLabel' = Succeeded) =>
              /\ calls[k].err = "nil"
              /\ calls[k].palette # NoPalette]_vars

----------------------------------------------------------------------------
(* The template directory, from before NewColorSyncManager on.             *)

\* a variant of SeedFile that writes whether or not the file exists, as if
\* the pathExists test of line 261 were missing
SeedFileAlways(file, templateName, writeOk) ==
    IF writeOk THEN File(TemplateText(templateName)) ELSE file

\* the body of the loop of createDefaultTemplates for one file; writeOk:
\* whether os.WriteFile succeeds
SeedFile(file, templateName, writeOk) ==
    IF ~file.exists /\ writeOk THEN File(TemplateText(templateName)) ELSE file

\* csm.config after loadConfig at start-up: the default configuration, or
\* that of a color-sync.json saved with auto-apply switched off
StartConfigs ==
    {[Enabled |-> TRUE, AutoApply |-> a, Applications |-> DefaultApplications,
      LastTheme |-> "", LastColors |-> NoPalette] : a \in BOOLEAN}

\* NewColorSyncManager: NewTemplateManager with createDefaultTemplates, then
\* loadConfig
NewColorSyncManager ==
    /\ pc = "new"
    /\ \E written \in SUBSET TemplateNames :
         templateFiles' = [t \in TemplateNames |->
                             SeedFile(templateFiles[t], t, t \in written)]
    /\ config' \in StartConfigs
    /\ configFile' = config'
    /\ pc' = "idle"
    /\ UNCHANGED <<content, input, colors, resolved, iter, changed, toVisit,
                   palette, toMap>>
    /\ UNCHANGED <<destFiles, calls, changes>>
    /\ UNCHANGED <<fillVars, normVars, exportFile, uiVars>>

\* ExportCurrentPalette(filename) for a filename outside the template
\* directory; writeOk: whether os.WriteFile succeeds
ExportCurrentPalette ==
    /\ pc = "idle"
    /\ config.LastColors # NoPalette
    /\ \E writeOk \in BOOLEAN :
         exportFile' = IF writeOk THEN config.LastColors ELSE exportFile
    /\ UNCHANGED syncVars
    /\ UNCHANGED extractVars
    /\ UNCHANGED <<fillVars, normVars, uiVars>>

\* a template file the user has written
UserTemplate == File("# mine\nbg={background}\n")

\* the template directory before the program starts: empty, or holding a
\* file of the user's, or one that cannot be read
TemplateDirsBefore ==
    LET none == [t \in TemplateNames |-> NoFile]
        one  == TemplateOf(GetApplications[1])
        two  == TemplateOf(GetApplications[2])
    IN  {none, [none EXCEPT ![one] = UserTemplate],
         [none EXCEPT ![one] = Unreadable, ![two] = UserTemplate]}

\* the zero value, before loadConfig
NoConfig == [Enabled |-> FALSE, AutoApply |-> FALSE, Applications |-> EmptyTable,
             LastTheme |-> "", LastColors |-> NoPalette]

InitTemplates ==
    /\ content = ""
    /\ input = EmptyTable
    /\ colors = EmptyTable
    /\ resolved = EmptyTable
    /\ iter = 0
    /\ changed = FALSE
    /\ toVisit = {}
    /\ palette = NoPalette
    /\ toMap = {}
    /\ pc = "new"
    /\ IdleFill
    /\ IdleNormalize
    /\ config = NoConfig
    /\ configFile = NoConfig
    /\ templateFiles \in TemplateDirsBefore
    /\ destFiles = [t \in TemplateNames |-> NoFile]
    /\ calls = <<>>
    /\ changes = 0
    /\ exportFile = NoPalette
    /\ statusLabel = ""
    /\ clicks = EmptyTable

NextTemplates ==
    \/ NewColorSyncManager
    \/ onThemeChanged
    \/ ApplyClicked
    \/ \E k \in DOMAIN calls : Begin(k)
    \/ \E k \in DOMAIN calls : ApplyVisit(k)
    \/ \E k \in DOMAIN calls : SetLastTheme(k)
    \/ \E k \in DOMAIN calls : SetLastColors(k)
    \/ \E k \in DOMAIN calls : SaveAndReturn(k)
    \/ \E k \in DOMAIN calls : ShowResult(k)
    \/ ExportCurrentPalette

SpecTemplates == InitTemplates /\ [][NextTemplates]_vars

\* C17: templates are seeded once and read-only afterwards: no step of the
\* program (construction with createDefaultTemplates, ApplyTheme with
\* ApplyColors, the config save, the palette export) changes a template file
\* that exists, whatever it holds; createDefaultTemplates writes only where
\* no file exists.
C17_ReadOnly ==
    [][\A t \in TemplateNames :
         templateFiles[t].exists => templateFiles'[t] = templateFiles[t]]_vars

\* a file of the user's is still as it was after construction seeded the
\* other file, a theme was applied through both and the palette was exported
C17_Witness ==
    /\ \E t \in TemplateNames : templateFiles[t] = UserTemplate
    /\ \E t \in TemplateNames : templateFiles[t] = File(TemplateText(t))
    /\ \E k \in DOMAIN calls :
         /\ calls[k].pc = "done"
         /\ DOMAIN calls[k].log = TemplateNames
         /\ \A t \in TemplateNames : calls[k].log[t] = "Applied colors"
    /\ configFile.LastColors # NoPalette
    /\ exportFile # NoPalette

============================================================================
